---- MODULE Spec2Model ----
(***************************************************************************)
(* Video analysis backend: the job store and HTTP handlers of              *)
(* backend/app/main.py and the frame-analysis stages of                     *)
(* backend/app/services/video_processor.py.                                 *)
(*                                                                         *)
(* The handlers are coroutines of one asyncio event loop: a handler runs   *)
(* without interruption up to its next await.  start_processing,           *)
(* get_analysis_results and query_video contain no await after their       *)
(* checks, so each is one action.  process_video_background awaits the     *)
(* socket emit and the processor calls; each awaited call is one action.   *)
(* Every awaited call may raise.  created_at/updated_at are wall-clock     *)
(* stamps no handler reads back and are left out of the job record.        *)
(***************************************************************************)
EXTENDS Integers, Sequences, FiniteSets, TLC

\* ------------------------------------------------------------------ bounds
MaxJobs == 1
MaxPeople == 1
MaxFrames == 61
MaxDetections == 3
MaxProbe == 1
MaxFrameSize == 5
MaxZoneDetections == 2

\* the longest side of a bounding rectangle
MaxSide == 100

\* --------------------------------------------------------------- constants
None == "None"

JobIds == 1..MaxJobs

UPLOADED == "uploaded"
PROCESSING == "processing"
COMPLETED == "completed"
FAILED == "failed"

AllowedContentTypes == {"video/mp4", "video/mov", "video/avi", "video/mkv"}

\* settings.max_file_size, in MB (500 * 1024 * 1024 bytes)
MaxFileSizeMB == 500

ContentTypes == {"video/mp4", "video/mkv", "image/png"}
FileSizesMB == {0, 1, 500, 501}
FileNames == {"clip.mp4"}

\* the progress pushed before each awaited processor call, in program order
MilestonesOutOfOrder == <<10, 20, 60, 40, 70, 80, 90>>

Milestones == <<10, 20, 40, 60, 70, 80, 90>>

StepMessages ==
  <<"Getting video metadata...", "Extracting frames...", "Detecting objects...",
    "Analyzing movements...", "Processing zones...", "Extracting attributes...",
    "Creating temporal analysis...">>

\* the processor call awaited after each push
StageCalls ==
  <<"get_video_metadata", "extract_frames", "detect_objects_in_frames",
    "extract_movements", "extract_zone_interactions",
    "extract_person_attributes", "extract_temporal_data">>

NumStages == Len(Milestones)

VARIABLES
  jobs,          \* main.py jobs: job_id -> job record (a dict keyed by job id)
  tasks,         \* background tasks added by start_processing, in order
  rooms,         \* per-job socket room: the events emitted to it, in order
  disk,          \* per-job output_dir/<job_id> directory: "absent" | "present"
  cleanup_calls, \* per job, how often cleanup_temp_files was called
  response,      \* the last HTTP response sent
  ef,            \* extract_frames activation: its locals and position
  mv,            \* extract_movements activation
  zn,            \* extract_zone_interactions activation
  cd,            \* the last calculate_direction call: arguments and return
  dt             \* detect_objects_in_frames activation on one frame

pureVars == <<ef, mv, zn, cd, dt>>

vars ==
  <<jobs, tasks, rooms, disk, cleanup_calls, response, ef, mv, zn, cd, dt>>

appVars == <<jobs, tasks, rooms, disk, cleanup_calls, response>>

\* --------------------------------------------------------- job store, HTTP

\* the body of a response that is not a QueryResponse
NoBody == [answer |-> [template |-> "none", values |-> <<>>], confidence |-> 0]

NoResponse == [op |-> "none", job |-> 0, code |-> 0, query |-> <<>>, body |-> NoBody]

Response(op, j, code) ==
  [op |-> op, job |-> j, code |-> code, query |-> <<>>, body |-> NoBody]

\* jobs[job_id] = {...} in upload_video; message, error and result are keys
\* the upload does not set (job.get(...) is None)
NewJob(filename) ==
  [status |-> UPLOADED, progress |-> 0, filename |-> filename,
   message |-> None, error |-> None, result |-> None]

ContentTypeAccepted(ct) == ct \in AllowedContentTypes

\* if video.size and video.size > settings.max_file_size
TooLarge(size) == size # 0 /\ size > MaxFileSizeMB

\* uuid4: a job id no job has yet
FreshJobId == Cardinality(DOMAIN jobs) + 1

UploadVideo ==
  \E ct \in ContentTypes, size \in FileSizesMB, name \in FileNames,
     written \in BOOLEAN :
    /\ FreshJobId \in JobIds
    /\ IF ~ContentTypeAccepted(ct) \/ TooLarge(size)
         THEN /\ response' = Response("upload", 0, 400)
              /\ jobs' = jobs
         ELSE IF ~written
           THEN /\ response' = Response("upload", 0, 500)
                /\ jobs' = jobs
           ELSE /\ jobs' = jobs @@ (FreshJobId :> NewJob(name))
                /\ response' = Response("upload", FreshJobId, 200)
    /\ UNCHANGED <<tasks, rooms, disk, cleanup_calls, pureVars>>

GetJobStatus(j) ==
  /\ response' = IF j \in DOMAIN jobs THEN Response("status", j, 200)
                                      ELSE Response("status", j, 404)
  /\ UNCHANGED <<jobs, tasks, rooms, disk, cleanup_calls, pureVars>>

\* the guard of start_processing: job["status"] != UPLOADED rejects
ReadyUnlessProcessing(job) == job.status # PROCESSING

ReadyForProcessing(job) == job.status = UPLOADED

NewTask(j) == [job |-> j, pc |-> "push", stage |-> 1, exc |-> None]

\* background_tasks.add_task, then the status update, in one handler run
ScheduleOnly(j) ==
  /\ tasks' = Append(tasks, NewTask(j))
  /\ jobs' = jobs

Schedule(j) ==
  /\ tasks' = Append(tasks, NewTask(j))
  /\ jobs' = [jobs EXCEPT ![j].status = PROCESSING]

StartProcessing(j) ==
  /\ IF j \notin DOMAIN jobs
       THEN /\ response' = Response("process", j, 404)
            /\ UNCHANGED <<jobs, tasks>>
       ELSE IF ~ReadyForProcessing(jobs[j])
         THEN /\ response' = Response("process", j, 400)
              /\ UNCHANGED <<jobs, tasks>>
         ELSE /\ Schedule(j)
              /\ response' = Response("process", j, 200)
  /\ UNCHANGED <<rooms, disk, cleanup_calls, pureVars>>

\* GET /results/{job_id}: VideoAnalysisResult(**result) validates the stored
\* bundle against the response schema, whose zone_interactions is an int
ValidAnalysisResult(result) == result.zone_interactions.type = "int"

GetAnalysisResults(j) ==
  /\ response' =
       IF j \notin DOMAIN jobs THEN Response("results", j, 404)
       ELSE IF jobs[j].status # COMPLETED THEN Response("results", j, 400)
       ELSE IF ValidAnalysisResult(jobs[j].result) THEN Response("results", j, 200)
       ELSE Response("results", j, 500)
  /\ UNCHANGED <<jobs, tasks, rooms, disk, cleanup_calls, pureVars>>

\* ------------------------------------------------------------- query_video
\* A query text is the sequence of its characters, so that lower() and the
\* substring test "w in query" are computed on the text itself.

UpperCase ==
  <<"A","B","C","D","E","F","G","H","I","J","K","L","M",
    "N","O","P","Q","R","S","T","U","V","W","X","Y","Z">>

LowerCase ==
  <<"a","b","c","d","e","f","g","h","i","j","k","l","m",
    "n","o","p","q","r","s","t","u","v","w","x","y","z">>

LowerChar(c) ==
  IF \E k \in DOMAIN UpperCase : UpperCase[k] = c
    THEN LowerCase[CHOOSE k \in DOMAIN UpperCase : UpperCase[k] = c]
    ELSE c

\* request.query.lower()
Lower(text) == [k \in DOMAIN text |-> LowerChar(text[k])]

\* word in text
Contains(text, word) ==
  \E k \in 1..(Len(text) - Len(word) + 1) :
    SubSeq(text, k, k + Len(word) - 1) = word

W_people == <<"p", "e", "o", "p", "l", "e">>

W_person == <<"p", "e", "r", "s", "o", "n">>

W_count == <<"c", "o", "u", "n", "t">>

W_how_many == <<"h", "o", "w", " ", "m", "a", "n", "y">>

W_male == <<"m", "a", "l", "e">>

W_female == <<"f", "e", "m", "a", "l", "e">>

W_movement == <<"m", "o", "v", "e", "m", "e", "n", "t">>

W_moving == <<"m", "o", "v", "i", "n", "g">>

W_peak == <<"p", "e", "a", "k">>

W_most_active == <<"m", "o", "s", "t", " ", "a", "c", "t", "i", "v", "e">>

W_door == <<"d", "o", "o", "r">>

W_zone == <<"z", "o", "n", "e">>

\* a word that triggers nothing
W_hello == <<"h", "e", "l", "l", "o">>

Words ==
  {W_people, W_person, W_count, W_how_many, W_male, W_female, W_movement,
   W_moving, W_peak, W_most_active, W_door, W_zone, W_hello}

\* request texts in mixed case
QHowManyPeople == <<"H", "o", "w", " ", "m", "a", "n", "y", " ", "P", "e", "o", "p", "l", "e">>

QCountPerson == <<"C", "o", "u", "n", "t", " ", "P", "E", "R", "S", "O", "N">>

QFemalePeople == <<"F", "e", "m", "a", "l", "e", " ", "P", "e", "o", "p", "l", "e">>

QMostActiveZone == <<"M", "O", "S", "T", " ", "A", "c", "t", "i", "v", "e", " ", "z", "o", "n", "e">>

\* the request texts tried: every word, every two words with a blank between
\* them, and the texts in mixed case
Queries ==
  Words \cup {a \o <<" ">> \o b : a, b \in Words}
        \cup {QHowManyPeople, QCountPerson, QFemalePeople, QMostActiveZone}

\* the request texts tried while the pipeline runs
PipelineQueries == {QHowManyPeople, QCountPerson, W_hello}

Answer(template, values) == [template |-> template, values |-> values]

\* response_text = "I couldn't find specific information about that query."
NotFoundAnswer == Answer("not_found", <<>>)

AboutPeople(query) == Contains(query, W_people) \/ Contains(query, W_person)

AskedForCountOnly(query) == Contains(query, W_count)

AskedForCount(query) == Contains(query, W_count) \/ Contains(query, W_how_many)

AskedForGender(query) == Contains(query, W_male) \/ Contains(query, W_female)

AboutMovement(query) == Contains(query, W_movement) \/ Contains(query, W_moving)

AboutPeak(query) == Contains(query, W_peak) \/ Contains(query, W_most_active)

AboutDoor(query) == Contains(query, W_door) \/ Contains(query, W_zone)

\* f"I detected {unique_people} unique people in the video. There were
\* {total_detections} total person detections across all frames."
PeopleCountAnswer(result) ==
  Answer("people_count",
         <<result.summary.unique_people, result.person_detections>>)

\* the if / elif chain on the lower-cased query: the answer and its
\* confidence; the values the other templates format are left out
AnswerQuery(result, query) ==
  IF AboutPeople(query)
    THEN IF AskedForCount(query)
           THEN [answer |-> PeopleCountAnswer(result), confidence |-> 85]
         ELSE IF AskedForGender(query)
           THEN [answer |-> Answer("gender", <<>>), confidence |-> 60]
         ELSE [answer |-> NotFoundAnswer, confidence |-> 0]
  ELSE IF AboutMovement(query)
    THEN [answer |-> Answer("movements", <<>>), confidence |-> 80]
  ELSE IF AboutPeak(query)
    THEN [answer |-> Answer("peak", <<>>), confidence |-> 90]
  ELSE IF AboutDoor(query)
    THEN [answer |-> Answer("door", <<>>), confidence |-> 75]
  ELSE [answer |-> NotFoundAnswer, confidence |-> 0]

QueryResponse(j, q, code, body) ==
  [op |-> "query", job |-> j, code |-> code, query |-> q, body |-> body]

QueryVideo(j, q) ==
  /\ response' =
       IF j \notin DOMAIN jobs THEN QueryResponse(j, q, 404, NoBody)
       ELSE IF jobs[j].status # COMPLETED THEN QueryResponse(j, q, 400, NoBody)
       ELSE QueryResponse(j, q, 200, AnswerQuery(jobs[j].result, Lower(q)))
  /\ UNCHANGED <<jobs, tasks, rooms, disk, cleanup_calls, pureVars>>

\* ------------------------------------------------- process_video_background

\* str(e) of the exception each awaited call raises when it fails
StageErrors ==
  <<"Could not open video file", "integer division or modulo by zero",
    "detect_objects_in_frames failed", "extract_movements failed",
    "extract_zone_interactions failed", "extract_person_attributes failed",
    "extract_temporal_data failed">>

EmitError == "emit failed"
CleanupError == "rmtree failed"

UpdateEvent(j, progress, message) ==
  [type |-> "processing_update", job_id |-> j, status |-> "processing",
   progress |-> progress, message |-> message]

CompleteEvent(result) == [type |-> "processing_complete", result |-> result]

ErrorEvent(msg) == [type |-> "processing_error", message |-> msg]

\* update_job_progress, up to its emit
WithProgress(job, progress, message) ==
  [job EXCEPT !.progress = progress, !.message = message]

\* the except block's writes to the job
MarkFailedKeepStatus(job, msg) == [job EXCEPT !.error = msg]

MarkFailed(job, msg) == [job EXCEPT !.status = FAILED, !.error = msg]

\* the writes after the result bundle is built
MarkCompleted(job, result) ==
  [job EXCEPT !.result = result, !.status = COMPLETED, !.progress = 100,
              !.message = "Processing completed successfully"]

\* the bundle; the dict literal names "zone_interactions" twice and the later
\* entry, the list of interactions, is the one stored. Every detection has
\* an object_id of its own (job, frame and index in the frame), so the number
\* of distinct person ids is the number of person detections
BuildResult(j, people) ==
  [job_id |-> j,
   zone_interactions |-> [type |-> "list"],
   summary |-> [unique_people |-> people],
   person_detections |-> people]

\* except Exception as e: the job is marked, then the error event is emitted;
\* that emit is awaited like any other and may raise out of the task
ExceptHandler(t, jobsNow, msg) ==
  LET j == tasks[t].job IN
  /\ jobs' = [jobsNow EXCEPT ![j] = MarkFailed(@, msg)]
  /\ \E sent \in BOOLEAN :
       /\ rooms' = IF sent THEN [rooms EXCEPT ![j] = Append(@, ErrorEvent(msg))]
                           ELSE rooms
       /\ tasks' = [tasks EXCEPT ![t].pc = IF sent THEN "handled" ELSE "crashed",
                                 ![t].exc = msg]

\* await update_job_progress(job_id, p, message)
PushProgress(t) ==
  LET j == tasks[t].job
      i == tasks[t].stage
      jobsNow == [jobs EXCEPT ![j] = WithProgress(@, Milestones[i], StepMessages[i])]
  IN /\ tasks[t].pc = "push"
     /\ \/ /\ jobs' = jobsNow
           /\ rooms' = [rooms EXCEPT ![j] =
                          Append(@, UpdateEvent(j, Milestones[i], StepMessages[i]))]
           /\ tasks' = [tasks EXCEPT ![t].pc = "call"]
        \/ ExceptHandler(t, jobsNow, EmitError)
     /\ UNCHANGED <<disk, cleanup_calls, response, pureVars>>

\* await video_processor.<stage>(...); extract_frames creates the job's
\* frames directory before it reads the video
CallStage(t) ==
  LET j == tasks[t].job
      i == tasks[t].stage
  IN /\ tasks[t].pc = "call"
     /\ \/ /\ tasks' = [tasks EXCEPT ![t].pc = IF i < NumStages THEN "push" ELSE "store",
                                     ![t].stage = IF i < NumStages THEN i + 1 ELSE i]
           /\ disk' = IF StageCalls[i] = "extract_frames"
                        THEN [disk EXCEPT ![j] = "present"] ELSE disk
           /\ UNCHANGED <<jobs, rooms>>
        \/ /\ ExceptHandler(t, jobs, StageErrors[i])
           /\ \E made \in BOOLEAN :
                disk' = IF StageCalls[i] = "extract_frames" /\ made
                          THEN [disk EXCEPT ![j] = "present"] ELSE disk
     /\ UNCHANGED <<cleanup_calls, response, pureVars>>

\* lines 164-194: the summary and the bundle are built and stored
StoreResult(t) ==
  LET j == tasks[t].job IN
  /\ tasks[t].pc = "store"
  /\ \E people \in 0..MaxPeople :
       jobs' = [jobs EXCEPT ![j] = MarkCompleted(@, BuildResult(j, people))]
  /\ tasks' = [tasks EXCEPT ![t].pc = "emit"]
  /\ UNCHANGED <<rooms, disk, cleanup_calls, response, pureVars>>

\* await sio.emit("processing_complete", result, room=job_id)
EmitComplete(t) ==
  LET j == tasks[t].job IN
  /\ tasks[t].pc = "emit"
  /\ \/ /\ rooms' = [rooms EXCEPT ![j] = Append(@, CompleteEvent(jobs[j].result))]
        /\ tasks' = [tasks EXCEPT ![t].pc = "cleanup"]
        /\ jobs' = jobs
     \/ ExceptHandler(t, jobs, EmitError)
  /\ UNCHANGED <<disk, cleanup_calls, response, pureVars>>

\* await video_processor.cleanup_temp_files(job_id): rmtree of the job's
\* directory when it exists; a failing rmtree leaves the directory behind
CleanupTempFiles(t) ==
  LET j == tasks[t].job IN
  /\ tasks[t].pc = "cleanup"
  /\ cleanup_calls' = [cleanup_calls EXCEPT ![j] = @ + 1]
  /\ \/ /\ disk' = [disk EXCEPT ![j] = "absent"]
        /\ tasks' = [tasks EXCEPT ![t].pc = "done"]
        /\ UNCHANGED <<jobs, rooms>>
     \/ /\ disk[j] = "present"
        /\ disk' = disk
        /\ ExceptHandler(t, jobs, CleanupError)
  /\ UNCHANGED <<response, pureVars>>

\* ------------------------------------------------------------ extract_frames
\* Frame rates are counted in quarters of a frame per second, so that rates
\* below the target rate of 0.5 (two quarters) are inputs too.

\* frame_rate: float = 0.5
TargetRateQ == 2

\* the interval used when cap.get(CAP_PROP_FPS) is not positive
UnknownFpsInterval == 30

\* int(fps / frame_rate) if fps > 0 else 30
FrameInterval(fpsQ) ==
  IF fpsQ > 0 THEN fpsQ \div TargetRateQ ELSE UnknownFpsInterval

EfStart(fpsQ, total) ==
  [pc |-> "loop", fps |-> fpsQ, total |-> total,
   frame_interval |-> FrameInterval(fpsQ),
   frame_count |-> 0, saved_count |-> 0, frame_paths |-> <<>>]

\* one pass of the while loop: cap.read(), the modulo test, the write.
\* A path is the number in its file name and the source frame written to it.
\* frame_count % 0 raises ZeroDivisionError.
ExtractFramesStep ==
  /\ ef.pc = "loop"
  /\ ef' =
       IF ef.frame_count >= ef.total THEN [ef EXCEPT !.pc = "returned"]
       ELSE IF ef.frame_interval = 0 THEN [ef EXCEPT !.pc = "raised"]
       ELSE IF ef.frame_count % ef.frame_interval = 0
         THEN [ef EXCEPT !.frame_paths =
                           Append(@, [name |-> ef.saved_count, frame |-> ef.frame_count]),
                         !.saved_count = @ + 1,
                         !.frame_count = @ + 1]
         ELSE [ef EXCEPT !.frame_count = @ + 1]
  /\ UNCHANGED <<appVars, mv, zn, cd, dt>>

\* --------------------------------------- extract_movements, calculate_direction
\* Centers are x + width / 2 of integer boxes; points are kept in half
\* pixels (twice the pixel value), so every center is an integer pair.
\* np.sqrt of the squared displacement is kept as the surd sqrt(sq) / den:
\* the squared displacement of two such centers is a multiple of 1/4, so the
\* double comparisons against 20 and 300 agree with the exact ones.

Point(x, y) == [x |-> x, y |-> y]

\* {"x": bbox["x"] + bbox["width"] / 2, "y": bbox["y"] + bbox["height"] / 2}
Center(bbox) == Point(2 * bbox.x + bbox.width, 2 * bbox.y + bbox.height)

\* np.sqrt(dx ** 2 + dy ** 2) of two points given in half pixels
Distance(a, b) ==
  [sq |-> (b.x - a.x) * (b.x - a.x) + (b.y - a.y) * (b.y - a.y), den |-> 2]

MinDistance == 20
MaxDistance == 300

SurdAbove(d, k) == (k * d.den) * (k * d.den) < d.sq
SurdBelow(d, k) == d.sq < (k * d.den) * (k * d.den)

\* if 20 < distance < 300
InMovementRangeInclusive(d) == ~SurdBelow(d, MinDistance) /\ ~SurdAbove(d, MaxDistance)

InMovementRange(d) == SurdAbove(d, MinDistance) /\ SurdBelow(d, MaxDistance)

\* speed = distance / 2.0
Speed(d) == [sq |-> d.sq, den |-> 2 * d.den]

\* angle = np.arctan2(dy, dx) * 180 / np.pi, compared with a in
\* {-135, -45, 45, 135}: angle >= a.  arctan2 is in (-180, 180], 0 for (0, 0),
\* 180 for dy = 0 and dx < 0, and exactly +-45 and +-135 on the diagonals.
AngleAtLeast(dy, dx, a) ==
  CASE a = -135 -> ~(dy < 0 /\ dx < 0 /\ -dy < -dx)
    [] a = -45  -> dy >= 0 \/ (dx > 0 /\ -dy <= dx)
    [] a = 45   -> (dy > 0 /\ dy >= dx) \/ (dy = 0 /\ dx < 0)
    [] a = 135  -> (dy > 0 /\ dx < 0 /\ dy <= -dx) \/ (dy = 0 /\ dx < 0)

CalculateDirectionClosedAbove(from_point, to_point) ==
  LET dx == to_point.x - from_point.x
      dy == to_point.y - from_point.y
  IN IF AngleAtLeast(dy, dx, -45) /\ ~(AngleAtLeast(dy, dx, 45) /\ dy # dx) THEN "right"
     ELSE IF AngleAtLeast(dy, dx, 45) /\ ~AngleAtLeast(dy, dx, 135) THEN "down"
     ELSE IF AngleAtLeast(dy, dx, 135) \/ ~AngleAtLeast(dy, dx, -135) THEN "left"
     ELSE "up"

CalculateDirection(from_point, to_point) ==
  LET dx == to_point.x - from_point.x
      dy == to_point.y - from_point.y
  IN IF AngleAtLeast(dy, dx, -45) /\ ~AngleAtLeast(dy, dx, 45) THEN "right"
     ELSE IF AngleAtLeast(dy, dx, 45) /\ ~AngleAtLeast(dy, dx, 135) THEN "down"
     ELSE IF AngleAtLeast(dy, dx, 135) \/ ~AngleAtLeast(dy, dx, -135) THEN "left"
     ELSE "up"

CdCall(from_point, to_point) ==
  [pc |-> "returned", from_point |-> from_point, to_point |-> to_point,
   direction |-> CalculateDirection(from_point, to_point)]

NewMovement(detection, prev_center, current_center) ==
  LET distance == Distance(prev_center, current_center) IN
  [object_type |-> detection.object_type,
   distance |-> distance,
   direction |-> CalculateDirection(prev_center, current_center),
   speed |-> Speed(distance),
   timestamp |-> detection.timestamp,
   start_point |-> prev_center,
   end_point |-> current_center]

\* previous_objects[obj_type] = current_center
Remember(previous_objects, obj_type, center) ==
  [t \in DOMAIN previous_objects \cup {obj_type} |->
     IF t = obj_type THEN center ELSE previous_objects[t]]

MvStart == [pc |-> "scan", detections |-> <<>>, previous_objects |-> <<>>,
            movements |-> <<>>]

ObjectTypes == {"person", "car"}

\* boxes whose centers are (20,20), (20,40), (20,41), (20,320) and
\* (120.5,120.5) pixels
ScanBoxes ==
  {[x |-> 0, y |-> 0, width |-> 40, height |-> 40],
   [x |-> 0, y |-> 20, width |-> 40, height |-> 40],
   [x |-> 0, y |-> 21, width |-> 40, height |-> 40],
   [x |-> 0, y |-> 300, width |-> 40, height |-> 40],
   [x |-> 100, y |-> 100, width |-> 41, height |-> 41]}

\* one pass of the for loop over the detections, on the next detection of
\* the list (each in a frame of its own: timestamp = i * 2.0)
ScanDetection ==
  /\ mv.pc = "scan"
  /\ Len(mv.detections) < MaxDetections
  /\ \E obj_type \in ObjectTypes, bbox \in ScanBoxes :
       LET detection == [object_type |-> obj_type, bbox |-> bbox,
                         timestamp |-> 2 * Len(mv.detections)]
           current_center == Center(bbox)
           known == obj_type \in DOMAIN mv.previous_objects
           moved == known /\ InMovementRange(
                                Distance(mv.previous_objects[obj_type], current_center))
       IN /\ mv' = [mv EXCEPT
                      !.detections = Append(@, detection),
                      !.movements =
                         IF moved
                           THEN Append(@, NewMovement(detection,
                                            mv.previous_objects[obj_type], current_center))
                           ELSE @,
                      !.previous_objects = Remember(@, obj_type, current_center)]
          /\ cd' = IF moved THEN CdCall(mv.previous_objects[obj_type], current_center)
                            ELSE cd
  /\ UNCHANGED <<appVars, ef, zn, dt>>

\* calculate_direction called on its own: from the origin to every point of
\* a small grid (the axes and the four diagonals), to a point inside each
\* sector, and to (0, 100) pixels
ProbeFrom == {Point(0, 0)}
ProbeTo ==
  {Point(x, y) : x \in (-MaxProbe)..MaxProbe, y \in (-MaxProbe)..MaxProbe}
    \cup {Point(2, 1), Point(-1, 2), Point(-2, -1), Point(1, -2), Point(0, 200)}

CalculateDirectionCall ==
  /\ \E from_point \in ProbeFrom, to_point \in ProbeTo :
       cd' = CdCall(from_point, to_point)
  /\ UNCHANGED <<appVars, ef, mv, zn, dt>>

\* --------------------------------------- define_zones, extract_zone_interactions
\* Zone bounds are tenths of the frame size and centers are halves of a
\* pixel; both are kept in fortieths of a pixel.  The double products
\* n * 0.3, n * 0.4, ... compare with every half-pixel center as the exact
\* tenths do.  The double sum n * 0.7 + n * 0.3 is one ulp below n for the
\* sizes in ShortSums (those below 46 are listed), which the fortieth
\* subtracted in FloatSum stands for.

Tenths(k, n) == 4 * k * n
Whole(n) == 40 * n

DefineZones(width, height) ==
  <<[name |-> "top", x |-> 0, y |-> 0, width |-> Whole(width), height |-> Tenths(3, height)],
    [name |-> "middle", x |-> 0, y |-> Tenths(3, height), width |-> Whole(width), height |-> Tenths(4, height)],
    [name |-> "bottom", x |-> 0, y |-> Tenths(7, height), width |-> Whole(width), height |-> Tenths(3, height)],
    [name |-> "left", x |-> 0, y |-> 0, width |-> Tenths(3, width), height |-> Whole(height)],
    [name |-> "center", x |-> Tenths(3, width), y |-> 0, width |-> Tenths(4, width), height |-> Whole(height)],
    [name |-> "right", x |-> Tenths(7, width), y |-> 0, width |-> Tenths(3, width), height |-> Whole(height)],
    [name |-> "door_area", x |-> Tenths(4, width), y |-> Tenths(1, height), width |-> Tenths(2, width), height |-> Tenths(8, height)]>>

ShortSums == {3, 6, 12, 23, 24, 29}

\* bounds["x"] + bounds["width"] in double arithmetic
FloatSum(a, b) ==
  IF \E n \in ShortSums : a = Tenths(7, n) /\ b = Tenths(3, n)
    THEN a + b - 1 ELSE a + b

\* center_x = bbox["x"] + bbox["width"] / 2, likewise center_y
ZoneCenter(bbox) ==
  Point(40 * bbox.x + 20 * bbox.width, 40 * bbox.y + 20 * bbox.height)

\* bounds["x"] <= center_x <= bounds["x"] + bounds["width"] and the same in y
InZoneExclusive(zone, center) ==
  /\ zone.x < center.x
  /\ center.x < FloatSum(zone.x, zone.width)
  /\ zone.y < center.y
  /\ center.y < FloatSum(zone.y, zone.height)

InZone(zone, center) ==
  /\ zone.x <= center.x
  /\ center.x <= FloatSum(zone.x, zone.width)
  /\ zone.y <= center.y
  /\ center.y <= FloatSum(zone.y, zone.height)

NewZoneInteraction(detection, zone) ==
  [object_type |-> detection.object_type,
   zone_name |-> zone.name,
   timestamp |-> detection.timestamp,
   confidence |-> detection.confidence,
   object_id |-> detection.object_id]

\* the inner for loop: one interaction per matching zone, in zone order
InteractionsOf(detection, zones) ==
  LET hit == SelectSeq(zones, LAMBDA zone : InZone(zone, ZoneCenter(detection.bbox)))
  IN [k \in 1..Len(hit) |-> NewZoneInteraction(detection, hit[k])]

ZnStart(width, height) ==
  [pc |-> "scan", width |-> width, height |-> height,
   zones |-> DefineZones(width, height),
   detections |-> <<>>, interactions |-> <<>>]

\* bounding rectangles inside a width x height frame: the whole frame, the
\* unit boxes at its two corners, the second pixel row and the second
\* pixel column
FrameBoxes(width, height) ==
  {b \in {[x |-> 0, y |-> 0, width |-> width, height |-> height],
          [x |-> 0, y |-> 0, width |-> 1, height |-> 1],
          [x |-> width - 1, y |-> height - 1, width |-> 1, height |-> 1],
          [x |-> 0, y |-> 1, width |-> width, height |-> 1],
          [x |-> 1, y |-> 0, width |-> 1, height |-> height]} :
     b.x + b.width <= width /\ b.y + b.height <= height}

\* confidence in hundredths, as the detector assigns it to the two types
ConfidenceOf(obj_type) == IF obj_type = "person" THEN 95 ELSE 75

\* one pass of the outer for loop, on the next detection of the list
\* (object_id <job>_<i>_0 is the frame index i, timestamp = i * 2.0)
ScanZones ==
  /\ zn.pc = "scan"
  /\ Len(zn.detections) < MaxZoneDetections
  /\ \E obj_type \in ObjectTypes, bbox \in FrameBoxes(zn.width, zn.height) :
       LET detection == [object_id |-> Len(zn.detections),
                         object_type |-> obj_type,
                         confidence |-> ConfidenceOf(obj_type),
                         bbox |-> bbox,
                         timestamp |-> 2 * Len(zn.detections)]
       IN zn' = [zn EXCEPT
                   !.detections = Append(@, detection),
                   !.interactions = @ \o InteractionsOf(detection, zn.zones)]
  /\ UNCHANGED <<appVars, ef, mv, cd, dt>>

\* ------------------------- detect_objects_simple, detect_objects_in_frames
\* Scores are counted in ten-thousandths, so that 0.5 + area / 10000 is
\* 5000 + area. A contour is given by its bounding rectangle.

\* contours[:10]
ContourLimit == 10

\* if area > 1000
MinArea == 1000

\* elif area > 2000
CarArea == 2000

\* if area > 5000
PersonArea == 5000

\* min(0.5 + (area / 10000), 0.95)
BaseScore == 5000

ScoreCap == 9500

\* if pred["score"] > 0.5
ScoreFilter == 5000

Rect(w, h) == [x |-> 0, y |-> 0, w |-> w, h |-> h]

Min(a, b) == IF a < b THEN a ELSE b

Score(area) == Min(BaseScore + area, ScoreCap)

ObjectClassWideOrSquare(w, h) ==
  IF w * h > PersonArea THEN "person"
  ELSE IF w * h > CarArea THEN (IF w >= h THEN "car" ELSE "person")
  ELSE "object"

ObjectClass(w, h) ==
  IF w * h > PersonArea THEN "person"
  ELSE IF w * h > CarArea THEN (IF w > h THEN "car" ELSE "person")
  ELSE "object"

\* the dict appended to mock_detections
Prediction(r) ==
  [class |-> ObjectClass(r.w, r.h), score |-> Score(r.w * r.h),
   bbox |-> <<r.x, r.y, r.w, r.h>>]

\* ObjectDetection(...) for prediction j of frame i; object_id is the pair
\* (i, j) behind the job id, aspect_ratio the fraction width / height
NewDetection(i, j, pred) ==
  [object_id |-> <<i, j>>,
   object_type |-> pred.class,
   confidence |-> pred.score,
   bbox |-> [x |-> pred.bbox[1], y |-> pred.bbox[2],
             width |-> pred.bbox[3], height |-> pred.bbox[4]],
   frame_number |-> i + 1,
   size |-> pred.bbox[3] * pred.bbox[4],
   aspect_ratio |-> IF pred.bbox[4] > 0 THEN <<pred.bbox[3], pred.bbox[4]>>
                                        ELSE <<1, 1>>]

DtStart(contours) ==
  [pc |-> "simple", contours |-> contours,
   considered |-> SubSeq(contours, 1, Min(Len(contours), ContourLimit)),
   i |-> 1, mock_detections |-> <<>>, detections |-> <<>>]

\* one pass of the loop over contours[:10]; after the last, the return
DetectObjectsSimpleStep ==
  /\ dt.pc = "simple"
  /\ IF dt.i > Len(dt.considered)
       THEN dt' = [dt EXCEPT !.pc = "predicted"]
       ELSE LET r == dt.considered[dt.i] IN
            dt' = [dt EXCEPT
                     !.i = @ + 1,
                     !.mock_detections =
                        IF r.w * r.h > MinArea THEN Append(@, Prediction(r))
                                               ELSE @]
  /\ UNCHANGED <<appVars, ef, mv, zn, cd>>

\* the loop over the frame's predictions (frame 0), keeping those that pass
\* the score filter
DetectObjectsInFrames ==
  /\ dt.pc = "predicted"
  /\ LET made == [j \in 1..Len(dt.mock_detections) |->
                    NewDetection(0, j - 1, dt.mock_detections[j])]
     IN dt' = [dt EXCEPT
                 !.pc = "returned",
                 !.detections =
                    SelectSeq(made, LAMBDA d : d.confidence > ScoreFilter)]
  /\ UNCHANGED <<appVars, ef, mv, zn, cd>>

\* ------------------------------------------------------------ specification

EfIdle == [pc |-> "idle"]
MvIdle == [pc |-> "idle"]
ZnIdle == [pc |-> "idle"]
CdIdle == [pc |-> "idle"]
DtIdle == [pc |-> "idle"]

Init ==
  /\ jobs = <<>>
  /\ tasks = <<>>
  /\ rooms = [j \in JobIds |-> <<>>]
  /\ disk = [j \in JobIds |-> "absent"]
  /\ cleanup_calls = [j \in JobIds |-> 0]
  /\ response = NoResponse
  /\ ef = EfIdle
  /\ mv = MvIdle
  /\ zn = ZnIdle
  /\ cd = CdIdle
  /\ dt = DtIdle

Next ==
  \/ UploadVideo
  \/ \E j \in JobIds : GetJobStatus(j)
  \/ \E j \in JobIds : StartProcessing(j)
  \/ \E j \in JobIds : GetAnalysisResults(j)
  \/ \E j \in JobIds, q \in PipelineQueries : QueryVideo(j, q)
  \/ \E t \in DOMAIN tasks : PushProgress(t)
  \/ \E t \in DOMAIN tasks : CallStage(t)
  \/ \E t \in DOMAIN tasks : StoreResult(t)
  \/ \E t \in DOMAIN tasks : EmitComplete(t)
  \/ \E t \in DOMAIN tasks : CleanupTempFiles(t)

Spec == Init /\ [][Next]_vars

AppIdle ==
  /\ jobs = <<>>
  /\ tasks = <<>>
  /\ rooms = [j \in JobIds |-> <<>>]
  /\ disk = [j \in JobIds |-> "absent"]
  /\ cleanup_calls = [j \in JobIds |-> 0]
  /\ response = NoResponse

\* extract_frames on a video of `total` frames at each source frame rate
\* (quarters of a frame per second: 0 unknown, 1/4, 1/2, 3/4, 1, 3/2, 30)
SourceFpsQ == {0, 1, 2, 3, 4, 6, 120}

InitFrames ==
  /\ AppIdle
  /\ \E fpsQ \in SourceFpsQ, total \in 0..MaxFrames : ef = EfStart(fpsQ, total)
  /\ mv = MvIdle
  /\ zn = ZnIdle
  /\ cd = CdIdle
  /\ dt = DtIdle

NextFrames == ExtractFramesStep

SpecFrames == InitFrames /\ [][NextFrames]_vars

InitMovements ==
  /\ AppIdle
  /\ ef = EfIdle
  /\ mv = MvStart
  /\ zn = ZnIdle
  /\ cd = CdIdle
  /\ dt = DtIdle

NextMovements == ScanDetection \/ CalculateDirectionCall

SpecMovements == InitMovements /\ [][NextMovements]_vars

InitZones ==
  /\ AppIdle
  /\ ef = EfIdle
  /\ mv = MvIdle
  /\ \E width \in 1..MaxFrameSize, height \in 1..MaxFrameSize :
       zn = ZnStart(width, height)
  /\ cd = CdIdle
  /\ dt = DtIdle

NextZones == ScanZones

SpecZones == InitZones /\ [][NextZones]_vars

\* one frame's contours: every rectangle of sides up to MaxSide on its own,
\* the two rectangles of area 5001, pairs of rectangles around the area
\* thresholds, a frame without contours and one with more than ten
ThresholdRects ==
  {Rect(25, 40), Rect(11, 91), Rect(40, 50), Rect(87, 23), Rect(23, 87),
   Rect(50, 50), Rect(100, 50), Rect(3, 1667), Rect(1667, 3), Rect(60, 100)}

CrowdedFrame == [k \in 1..(ContourLimit + 1) |-> Rect(60, 100)]

Frames ==
  {<<Rect(w, h)>> : w \in 1..MaxSide, h \in 1..MaxSide}
    \cup {<<a, b>> : a \in ThresholdRects, b \in ThresholdRects}
    \cup {<<>>, CrowdedFrame}

InitDetect ==
  /\ AppIdle
  /\ ef = EfIdle
  /\ mv = MvIdle
  /\ zn = ZnIdle
  /\ cd = CdIdle
  /\ \E contours \in Frames : dt = DtStart(contours)

NextDetect == DetectObjectsSimpleStep \/ DetectObjectsInFrames

SpecDetect == InitDetect /\ [][NextDetect]_vars

\* query_video on a job whose run has completed: the store after one upload
\* and one run whose stages all succeeded and that counted `people` people
CompletedJob(people) ==
  MarkCompleted(
    WithProgress([NewJob("clip.mp4") EXCEPT !.status = PROCESSING],
                 Milestones[NumStages], StepMessages[NumStages]),
    BuildResult(1, people))

CompletedRoom(people) ==
  [i \in 1..NumStages |-> UpdateEvent(1, Milestones[i], StepMessages[i])]
    \o <<CompleteEvent(BuildResult(1, people))>>

InitQuery ==
  /\ \E people \in 0..MaxPeople :
       /\ jobs = <<CompletedJob(people)>>
       /\ rooms = [j \in JobIds |-> IF j = 1 THEN CompletedRoom(people) ELSE <<>>]
  /\ tasks = <<[NewTask(1) EXCEPT !.pc = "done", !.stage = NumStages]>>
  /\ disk = [j \in JobIds |-> "absent"]
  /\ cleanup_calls = [j \in JobIds |-> IF j = 1 THEN 1 ELSE 0]
  /\ response = Response("process", 1, 200)
  /\ ef = EfIdle
  /\ mv = MvIdle
  /\ zn = ZnIdle
  /\ cd = CdIdle
  /\ dt = DtIdle

NextQuery == \E j \in JobIds, q \in Queries : QueryVideo(j, q)

SpecQuery == InitQuery /\ [][NextQuery]_vars

\* ------------------------------------------------------------------ claims

TasksOf(j) == {t \in DOMAIN tasks : tasks[t].job = j}

\* the progress values of the processing_update events of job j's room
UpdatesOf(j) ==
  LET u == SelectSeq(rooms[j], LAMBDA e : e.type = "processing_update")
  IN [k \in 1..Len(u) |-> u[k].progress]

EventsOfType(j, type) == SelectSeq(rooms[j], LAMBDA e : e.type = type)

IsPrefix(s, t) == Len(s) <= Len(t) /\ \A k \in 1..Len(s) : s[k] = t[k]

Forward(a, b) ==
  \/ a = b
  \/ a = UPLOADED /\ b = PROCESSING
  \/ a = PROCESSING /\ b \in {COMPLETED, FAILED}

\* C1: a job's status only moves along uploaded -> processing -> (completed
\* or failed); no step changes a completed or failed status, none goes back
\* from processing to uploaded.
C1_StatusOnlyAdvances ==
  [][\A j \in DOMAIN jobs : Forward(jobs[j].status, jobs'[j].status)]_vars

\* C2: whatever the interleaving of POST /process requests, at most one
\* background run is ever scheduled for a job.
C2_AtMostOneRun == \A j \in JobIds : Cardinality(TasksOf(j)) <= 1

\* a second POST /process, sent after the job's only run finished, was rejected
C2_Witness ==
  \E j \in DOMAIN jobs :
    /\ response = Response("process", j, 400)
    /\ \E t \in TasksOf(j) : tasks[t].pc \in {"done", "handled", "crashed"}

Rejected(j) ==
  /\ response'.code = 400
  /\ response'.job = j
  /\ jobs' = jobs
  /\ tasks' = tasks
  /\ rooms' = rooms

\* C3: a request on an existing job whose status is not the one the
\* operation requires gets a 400 and changes nothing: POST /process on a
\* processing, completed or failed job, GET /results and POST /query on an
\* uploaded, processing or failed job; no task is scheduled, and a failed job
\* never gets another run.
C3_WrongStatusRejected ==
  [][\A j \in DOMAIN jobs :
       /\ (jobs[j].status \in {PROCESSING, COMPLETED, FAILED} /\ StartProcessing(j))
            => Rejected(j)
       /\ (jobs[j].status \in {UPLOADED, PROCESSING, FAILED} /\ GetAnalysisResults(j))
            => Rejected(j)
       /\ (jobs[j].status \in {UPLOADED, PROCESSING, FAILED}
             /\ \E q \in Queries : QueryVideo(j, q))
            => Rejected(j)
       /\ jobs[j].status = FAILED => TasksOf(j)' = TasksOf(j)]_vars

\* POST /process on a failed job has just been answered 400
C3_Witness ==
  \E j \in DOMAIN jobs :
    /\ jobs[j].status = FAILED
    /\ response = Response("process", j, 400)

RaisedTasks == {t \in DOMAIN tasks : tasks[t].exc # None}

FailedWith(t) ==
  LET j == tasks[t].job IN
  /\ jobs[j].status = FAILED
  /\ jobs[j].error = tasks[t].exc

ErrorEmitted(t) ==
  EventsOfType(tasks[t].job, "processing_error") = <<ErrorEvent(tasks[t].exc)>>

C5_HundredPushed ==
  \A j \in DOMAIN jobs :
    jobs[j].status = COMPLETED => UpdatesOf(j) = <<10, 20, 40, 60, 70, 80, 90, 100>>

\* C5, amended: the processing_update events of a run that reaches completed
\* carry exactly 10, 20, 40, 60, 70, 80, 90 in that order (100 is stored as
\* the job's progress and never pushed); any run has pushed a prefix of that
\* sequence; the stored progress never decreases.
C5_ProgressMilestones ==
  /\ [](\A j \in JobIds :
          /\ IsPrefix(UpdatesOf(j), <<10, 20, 40, 60, 70, 80, 90>>)
          /\ (j \in DOMAIN jobs /\ jobs[j].status = COMPLETED)
               => /\ UpdatesOf(j) = <<10, 20, 40, 60, 70, 80, 90>>
                  /\ jobs[j].progress = 100)
  /\ [][\A j \in DOMAIN jobs : jobs'[j].progress >= jobs[j].progress]_vars

\* a run went through to the end
C5_Witness ==
  \E t \in DOMAIN tasks :
    /\ tasks[t].pc = "done"
    /\ jobs[tasks[t].job].status = COMPLETED
    /\ jobs[tasks[t].job].progress = 100
    /\ UpdatesOf(tasks[t].job) = <<10, 20, 40, 60, 70, 80, 90>>

FramesExtracted(t) == tasks[t].stage > 2

\* C6: a job that ends failed after its frames were extracted never had
\* cleanup_temp_files called and still has its frame directory; a job whose
\* run ended completed has no frame directory left.
C6_CleanupOnlyOnSuccess ==
  \A t \in DOMAIN tasks :
    LET j == tasks[t].job IN
    /\ (tasks[t].pc \in {"handled", "crashed"} /\ FramesExtracted(t))
         => (cleanup_calls[j] = 0 /\ disk[j] = "present")
    /\ (tasks[t].pc = "done" /\ jobs[j].status = COMPLETED)
         => disk[j] = "absent"

\* C7: extract_frames keeps frame k iff k mod N = 0 with N = floor(fps /
\* target rate) for every positive source frame rate and N = 30 for rate 0;
\* the paths are in capture order, numbered from 0, ceil(F / N) of them.
C7_EveryNthFrameKept ==
  ef.pc \in {"returned", "raised"} =>
    /\ ef.pc = "returned"
    /\ LET N == IF ef.fps > 0 THEN ef.fps \div 2 ELSE 30
           n == Len(ef.frame_paths)
       IN /\ {ef.frame_paths[i].frame : i \in 1..n} =
               {k \in 0..(ef.total - 1) : k % N = 0}
          /\ \A i \in 1..n : ef.frame_paths[i].name = i - 1
          /\ \A i \in 1..n, k \in 1..n :
               i < k => ef.frame_paths[i].frame < ef.frame_paths[k].frame
          /\ ef.total = 0 => n = 0
          /\ ef.total > 0 => (n * N >= ef.total /\ (n - 1) * N < ef.total)

Dets == mv.detections

\* the earlier detections of detection i's object type
EarlierSame(i) == {k \in 1..(i - 1) : Dets[k].object_type = Dets[i].object_type}

LastSame(i) == CHOOSE k \in EarlierSame(i) : \A m \in EarlierSame(i) : m <= k

\* 4 * d^2 for the pixel distance d between the centers of detections k and i
FourDSquared(k, i) ==
  LET a == Center(Dets[k].bbox)
      b == Center(Dets[i].bbox)
  IN (b.x - a.x) * (b.x - a.x) + (b.y - a.y) * (b.y - a.y)

\* 20 < d < 300, as 4 * 20^2 < 4 d^2 < 4 * 300^2
ShouldMove(i) ==
  /\ EarlierSame(i) # {}
  /\ 1600 < FourDSquared(LastSame(i), i)
  /\ FourDSquared(LastSame(i), i) < 360000

MovedIndices == {i \in 1..Len(Dets) : ShouldMove(i)}

\* C8: scanning the detections in order, a Movement is emitted for a
\* detection iff an earlier detection of its type exists and the distance d
\* from the immediately preceding detection of that type satisfies
\* 20 < d < 300 (exactly 20 and exactly 300 emit nothing); the movements are
\* in scan order, from the preceding center to the current one; the
\* remembered center of a type is the center of the last detection of that
\* type, whether or not it emitted, and other types do not touch it.
C8_MovementIffInOpenRange ==
  mv.pc = "scan" =>
    /\ Len(mv.movements) = Cardinality(MovedIndices)
    /\ \A i \in MovedIndices :
         \E k \in 1..Len(mv.movements) :
           /\ mv.movements[k].timestamp = Dets[i].timestamp
           /\ mv.movements[k].object_type = Dets[i].object_type
           /\ mv.movements[k].start_point = Center(Dets[LastSame(i)].bbox)
           /\ mv.movements[k].end_point = Center(Dets[i].bbox)
           /\ k = Cardinality({m \in MovedIndices : m <= i})
    /\ DOMAIN mv.previous_objects = {Dets[i].object_type : i \in 1..Len(Dets)}
    /\ \A i \in 1..Len(Dets) :
         (\A k \in (i + 1)..Len(Dets) : Dets[k].object_type # Dets[i].object_type)
           => mv.previous_objects[Dets[i].object_type] = Center(Dets[i].bbox)

\* three person detections: the second at distance exactly 20 from the first
\* (nothing emitted), the third at distance 280 from the second (emitted)
C8_Witness ==
  /\ mv.pc = "scan"
  /\ Len(Dets) = 3
  /\ Dets[1].object_type = "person" /\ Dets[2].object_type = "person"
  /\ Dets[3].object_type = "person"
  /\ FourDSquared(1, 2) = 1600
  /\ FourDSquared(2, 3) = 280 * 280 * 4
  /\ Len(mv.movements) = 1
  /\ mv.movements[1].timestamp = Dets[3].timestamp

RightSector(dx, dy) == (dx > 0 /\ -dx <= dy /\ dy < dx) \/ (dx = 0 /\ dy = 0)
DownSector(dx, dy) == dy > 0 /\ -dy < dx /\ dx <= dy
LeftSector(dx, dy) == dx < 0 /\ dx < dy /\ dy <= -dx
UpSector(dx, dy) == dy < 0 /\ dy <= dx /\ dx < -dy

InClaimedSector(from_point, to_point, direction) ==
  LET dx == to_point.x - from_point.x
      dy == to_point.y - from_point.y
  IN /\ direction \in {"right", "down", "left", "up"}
     /\ direction = "right" <=> RightSector(dx, dy)
     /\ direction = "down" <=> DownSector(dx, dy)
     /\ direction = "left" <=> LeftSector(dx, dy)
     /\ direction = "up" <=> UpSector(dx, dy)

\* C9: calculate_direction returns exactly one of right/down/left/up, by the
\* 90-degree sector of the displacement: right for [-45, 45) (and for no
\* displacement), down for [45, 135), left for >= 135 or < -135, up for
\* [-135, -45); (0,0) -> (0,100) is "down"; every Movement has the direction
\* of its displacement and speed = distance / 2.
C9_DirectionSectors ==
  /\ cd.pc = "returned" =>
       /\ InClaimedSector(cd.from_point, cd.to_point, cd.direction)
       /\ (cd.from_point = Point(0, 0) /\ cd.to_point = Point(0, 200))
            => cd.direction = "down"
  /\ mv.pc = "scan" =>
       \A k \in 1..Len(mv.movements) :
         LET m == mv.movements[k] IN
         /\ InClaimedSector(m.start_point, m.end_point, m.direction)
         /\ m.speed.sq = m.distance.sq
         /\ m.speed.den = 2 * m.distance.den

\* the call (0,0) -> (0,100) returned "down", after a scan emitted a
\* Movement along the 45-degree diagonal
C9_Witness ==
  /\ cd.pc = "returned"
  /\ cd.from_point = Point(0, 0)
  /\ cd.to_point = Point(0, 200)
  /\ cd.direction = "down"
  /\ mv.pc = "scan"
  /\ \E k \in 1..Len(mv.movements) :
       /\ mv.movements[k].end_point.x - mv.movements[k].start_point.x
            = mv.movements[k].end_point.y - mv.movements[k].start_point.y
       /\ mv.movements[k].direction = "down"

ZoneOrder == <<"top", "middle", "bottom", "left", "center", "right", "door_area">>

\* the zone rectangles as fractions of the frame, in tenths: x from x0 to x1
\* tenths of the width, y from y0 to y1 tenths of the height
ClaimedRect(name) ==
  CASE name = "top" -> [x0 |-> 0, x1 |-> 10, y0 |-> 0, y1 |-> 3]
    [] name = "middle" -> [x0 |-> 0, x1 |-> 10, y0 |-> 3, y1 |-> 7]
    [] name = "bottom" -> [x0 |-> 0, x1 |-> 10, y0 |-> 7, y1 |-> 10]
    [] name = "left" -> [x0 |-> 0, x1 |-> 3, y0 |-> 0, y1 |-> 10]
    [] name = "center" -> [x0 |-> 3, x1 |-> 7, y0 |-> 0, y1 |-> 10]
    [] name = "right" -> [x0 |-> 7, x1 |-> 10, y0 |-> 0, y1 |-> 10]
    [] name = "door_area" -> [x0 |-> 4, x1 |-> 6, y0 |-> 1, y1 |-> 9]

\* the center (2x + w) / 2 lies in the closed rectangle: 5 (2x + w) against
\* tenths * size
InClaimedRect(name, bbox) ==
  LET r == ClaimedRect(name)
      cx == 5 * (2 * bbox.x + bbox.width)
      cy == 5 * (2 * bbox.y + bbox.height)
  IN /\ r.x0 * zn.width <= cx /\ cx <= r.x1 * zn.width
     /\ r.y0 * zn.height <= cy /\ cy <= r.y1 * zn.height

ExpectedFor(detection) ==
  LET names == SelectSeq(ZoneOrder, LAMBDA name : InClaimedRect(name, detection.bbox))
  IN [k \in 1..Len(names) |->
        [object_type |-> detection.object_type, zone_name |-> names[k],
         timestamp |-> detection.timestamp, confidence |-> detection.confidence,
         object_id |-> detection.object_id]]

RECURSIVE ExpectedInteractions(_)
ExpectedInteractions(n) ==
  IF n = 0 THEN <<>>
  ELSE ExpectedInteractions(n - 1) \o ExpectedFor(zn.detections[n])

ZonesHit(i) ==
  {zn.interactions[k].zone_name :
     k \in {m \in 1..Len(zn.interactions) :
              zn.interactions[m].object_id = zn.detections[i].object_id}}

AtFrameCenter(bbox) ==
  /\ 2 * bbox.x + bbox.width = zn.width
  /\ 2 * bbox.y + bbox.height = zn.height

\* C10: for every frame size, a detection centered at (0.5 w, 0.5 h) gets
\* interactions for exactly middle, center and door_area; in general there
\* is one interaction per (detection, zone) pair whose closed zone rectangle
\* contains the detection's center, in detection order then zone order, with
\* the detection's type, timestamp, confidence and identifier.
C10_ZoneInteractions ==
  zn.pc = "scan" =>
    /\ \A i \in 1..Len(zn.detections) :
         AtFrameCenter(zn.detections[i].bbox)
           => ZonesHit(i) = {"middle", "center", "door_area"}
    /\ zn.interactions = ExpectedInteractions(Len(zn.detections))

\* a detection on the top/middle boundary of a 5-pixel-high frame (in both
\* zones) was followed by one at the frame's center
C10_Witness ==
  /\ zn.pc = "scan"
  /\ zn.height = 5
  /\ Len(zn.detections) = 2
  /\ 2 * zn.detections[1].bbox.y + zn.detections[1].bbox.height = 3
  /\ {"top", "middle"} \subseteq ZonesHit(1)
  /\ AtFrameCenter(zn.detections[2].bbox)
  /\ ZonesHit(2) = {"middle", "center", "door_area"}

\* C11: a query answered on a completed job whose lower-cased text contains
\* "people" or "person" together with "how many" or "count" gets confidence 85
\* and the people-count answer stating the summary's unique_people; answering
\* a query changes no job, no result, no task and no room.
IsCountQuery(text) ==
  /\ Contains(Lower(text), W_people) \/ Contains(Lower(text), W_person)
  /\ Contains(Lower(text), W_how_many) \/ Contains(Lower(text), W_count)

Answered == response.op = "query" /\ response.code = 200

C11_CountAnswered ==
  (Answered /\ IsCountQuery(response.query)) =>
    /\ response.body.confidence = 85
    /\ response.body.answer.template = "people_count"
    /\ response.body.answer.values[1] =
         jobs[response.job].result.summary.unique_people

C11_QueryReadsOnly ==
  (\E j \in JobIds, q \in PipelineQueries : QueryVideo(j, q)) =>
    UNCHANGED <<jobs, tasks, rooms, disk>>

C11_CountQuery == []C11_CountAnswered /\ [][C11_QueryReadsOnly]_vars

C11_Witness ==
  /\ Answered
  /\ response.query = QHowManyPeople
  /\ response.body.confidence = 85
  /\ response.body.answer.values[1] = MaxPeople
  /\ jobs[response.job].status = COMPLETED
  /\ jobs[response.job].result.summary.unique_people = MaxPeople

\* C12: of the bounding rectangles of a frame, those of area at most 1000
\* yield no detection and every other yields exactly one: "object" up to area
\* 2000, then up to 5000 "car" when wider than tall and "person" otherwise,
\* "person" above 5000; its confidence is min(0.5 + area/10000, 0.95), above
\* 0.5 and at most 0.95, so the score filter discards none.
ClaimedClass(w, h) ==
  CASE w * h <= 1000 -> "none"
    [] w * h > 1000 /\ w * h <= 2000 -> "object"
    [] w * h > 2000 /\ w * h <= 5000 -> IF w > h THEN "car" ELSE "person"
    [] w * h > 5000 -> "person"

ClaimedConfidence(area) == IF 5000 + area < 9500 THEN 5000 + area ELSE 9500

Detected(k) == dt.considered[k].w * dt.considered[k].h > 1000

\* the position among the detections of the one made from rectangle k
RankOf(k) == Cardinality({m \in 1..k : Detected(m)})

C12_DetectionClasses ==
  dt.pc = "returned" =>
    /\ Len(dt.detections) = RankOf(Len(dt.considered))
    /\ \A k \in 1..Len(dt.considered) :
         LET r == dt.considered[k]
             d == dt.detections[RankOf(k)]
         IN IF ClaimedClass(r.w, r.h) = "none"
              THEN ~Detected(k)
              ELSE /\ d.bbox.width = r.w /\ d.bbox.height = r.h
                   /\ d.object_type = ClaimedClass(r.w, r.h)
                   /\ d.confidence = ClaimedConfidence(r.w * r.h)
                   /\ d.confidence > 5000 /\ d.confidence <= 9500

C12_Witness ==
  /\ dt.pc = "returned"
  /\ dt.considered = <<Rect(100, 50), Rect(25, 40), Rect(50, 50)>>
       \/ dt.considered = <<Rect(60, 100)>>
  /\ \E k \in 1..Len(dt.detections) :
       /\ dt.detections[k].size = 6000
       /\ dt.detections[k].object_type = "person"
       /\ dt.detections[k].confidence = 9500

\* the state InitQuery starts from, as the pipeline reaches it
CompletedRunReached ==
  /\ \E people \in 0..MaxPeople :
       /\ jobs = <<CompletedJob(people)>>
       /\ rooms[1] = CompletedRoom(people)
  /\ tasks = <<[NewTask(1) EXCEPT !.pc = "done", !.stage = NumStages]>>
  /\ disk[1] = "absent"
  /\ cleanup_calls[1] = 1
  /\ response = Response("process", 1, 200)

\* C13: a query answered on a completed job gets the "couldn't find" answer
\* with confidence 0 exactly when its lower-cased text contains none of
\* people, person, movement, moving, peak, most active, door, zone; a text
\* containing one of them gets a canned template with that template's
\* confidence, one of 85, 60, 80, 90, 75.
Triggers ==
  {W_people, W_person, W_movement, W_moving, W_peak, W_most_active, W_door,
   W_zone}

HasTrigger(text) == \E w \in Triggers : Contains(Lower(text), w)

TemplateConfidence ==
  [people_count |-> 85, gender |-> 60, movements |-> 80, peak |-> 90,
   door |-> 75]

C13_NotFoundIffNoTrigger ==
  Answered =>
    /\ (response.body.answer.template = "not_found" /\ response.body.confidence = 0)
         <=> ~HasTrigger(response.query)
    /\ HasTrigger(response.query) =>
         /\ response.body.answer.template \in DOMAIN TemplateConfidence
         /\ response.body.confidence =
              TemplateConfidence[response.body.answer.template]

\* C14: each pipeline run emits exactly one terminal event to its job's room,
\* processing_complete or processing_error and never both; no
\* processing_update follows the terminal event; processing_complete goes
\* with a final status of completed and processing_error with failed.
Terminal(e) == e.type \in {"processing_complete", "processing_error"}

TerminalEvents(j) == SelectSeq(rooms[j], Terminal)

\* the run has left process_video_background
RunOver(t) == tasks[t].pc \in {"done", "handled", "crashed"}

C14_OneTerminalEvent ==
  \A t \in DOMAIN tasks :
    LET j == tasks[t].job IN
    /\ Len(TerminalEvents(j)) <= 1
    /\ \A a, b \in 1..Len(rooms[j]) :
         (a < b /\ Terminal(rooms[j][a])) =>
           rooms[j][b].type # "processing_update"
    /\ RunOver(t) =>
         /\ Len(TerminalEvents(j)) = 1
         /\ Len(EventsOfType(j, "processing_complete")) > 0 =>
              jobs[j].status = COMPLETED
         /\ Len(EventsOfType(j, "processing_error")) > 0 =>
              jobs[j].status = FAILED

====
